---- MODULE Spec2Model ----
(***************************************************************************)
(* XrdProofServProxy (proofd): the session proxy, its recursive lock, its  *)
(* client-handle table, its worker pool and its ping semaphore.            *)
(*                                                                         *)
(* Threads call the proxy's operations.  An operation is three steps:      *)
(*   Call    the XrdOucMutexHelper at the top of the method takes fMutex   *)
(*   Do...   the method's body reads and writes the fields                 *)
(*   Return  the helper's destructor releases fMutex at scope exit         *)
(* C++ indices are 0-based; slot i of fClients is fClients[i + 1] here.    *)
(***************************************************************************)
EXTENDS Integers, Sequences, FiniteSets, TLC

\* ---------------------------------------------------------------- bounds
NThreads == 2
MaxClients == 3
MaxWorkers == 3
MaxObjs == 2
MaxTimeout == 2
MaxDelay == 3
MaxSigs == 3
MaxSize == 2
MaxStr == 2
MaxPrio == 2
MaxTerms == 2
MaxVal == 1

Threads == 1 .. NThreads
\* A connection (XrdProofdProtocol *) is identified with the thread serving it.
NullP == 0
\* The stream id (unsigned short) the connection served by thread t attaches with.
SidOf(t) == 10 + t
\* Workers (XrdProofWorker *) the callers pass.
WorkerRefs == {"w1", "w2"}

VARIABLES
    fClients,    \* std::vector<XrdClientID *>: sequence of [fP, fSid]
    fWorkers,    \* std::list<XrdProofWorker *>
    lockOwner,   \* thread holding fMutex, 0 when free
    lockCount,   \* recursion depth of fMutex
    pc,          \* per thread: "idle", "in" (body not yet run), "out" (body run)
    op,          \* per thread: the operation in progress, [name, arg]
    ret,         \* per thread: the value the body returned
    held,        \* per thread: the value its last GetFreeID() or PingSem() gave it, -1 when used
    stack,       \* per thread: the operations that called the one in progress, innermost first
    issued,      \* ids GetFreeID() has returned since the last detach
    fPingSem,    \* XrdOucSemWait *: 0, or the object it points to
    fQueryNum,   \* XrdSrvBuffer *: 0, or the object it points to
    fStartMsg,   \* XrdSrvBuffer *: 0, or the object it points to
    fID,         \* short int
    nextObj,     \* heap: number of objects allocated so far (objects are 1 .. nextObj)
    live,        \* heap: the objects allocated and not yet deleted
    fIsValid,    \* validity flag
    fStatus,     \* lifecycle status
    fIsShutdown, \* whether the session was asked to shut down
    vpc,         \* control thread: its position in VerifyProofServ / TerminateProofServ
    vret,        \* the value the last VerifyProofServ / TerminateProofServ returned
    timeout,     \* the timeout VerifyProofServ was called with
    delay,       \* the delay after which the worker's reply to the ping arrives
    willReply,   \* whether the worker replies to the ping at all
    pending,     \* a reply to a ping is still to come
    elapsed,     \* time since the ping, or the termination signal, was sent
    posted,      \* the semaphores that have been posted and not yet waited for
    tpc,         \* transport thread: its position in handling the reply
    staleUse,    \* a semaphore was posted after DeletePingSem() had freed it
    procAlive,   \* the controlled process has not exited
    sigs,        \* the signals sent to the controlled process, in order
    fSrvID,      \* int: the recorded id of the controlled process
    sigPids,     \* the process id each of those signals was sent to
    bufArgs,     \* the arguments the last XrdSrvBuffer was constructed with
    buf,         \* that XrdSrvBuffer: [fSize, fBuff, fMembuf]
    bufState,    \* "none", "built" or "destroyed"
    freed,       \* the blocks its destructor has passed to free()
    fAlias,      \* char *: 0, or the character buffer it points to
    aliasText,   \* the characters in that buffer
    fSched,      \* current scheduler policy
    fDefSched,   \* default scheduler policy
    fDefSchedParam,     \* default scheduling param
    fDefSchedPriority,  \* default scheduling priority
    procSched,   \* the controlled process: its scheduling policy,
    procParam,   \*   its scheduling param
    procPrio,    \*   and its priority
    osResult,    \* what the last call of the operating system returned
    osCalls,     \* how many calls of it the last operation made
    sumFunc,     \* a RooRealSumFunc: [funcList, coefList, haveLastCoef, doFloor]
    selectedComp,  \* isSelectedComp() of each function of its list
    doFloorGlobal, \* static _doFloorGlobal
    sumValue,    \* what the last evaluate() returned
    sumState,    \* "none", "built", "evaluated", ...: what was last done with it
    funcIntList, \* CacheElem::_funcIntList: the value of the integral of each function
    funcNormList,  \* CacheElem::_funcNormList: the value of each normalisation integral
    normSet,     \* the normalisation set: "null", "empty" or "set"
    intValue,    \* analyticalIntegralWN(): value at the return
    intNorm      \* analyticalIntegralWN(): normVal at the return

threadVars == <<pc, op, ret, held, stack>>
lockVars == <<lockOwner, lockCount>>
clientVars == <<fClients, issued>>
workerVars == <<fWorkers>>
heapVars == <<nextObj, live>>
semVars == <<fPingSem, fQueryNum, fStartMsg, fID>>
lifeVars == <<fIsValid, fStatus, fIsShutdown>>
verifyVars == <<vpc, vret, timeout, delay, willReply, pending, elapsed, posted, tpc, staleUse>>
procVars == <<procAlive, sigs, fSrvID, sigPids>>
bufVars == <<bufArgs, buf, bufState, freed>>
strVars == <<fAlias, aliasText>>
prioVars == <<fSched, fDefSched, fDefSchedParam, fDefSchedPriority,
              procSched, procParam, procPrio, osResult, osCalls>>
intVars == <<funcIntList, funcNormList, normSet, intValue, intNorm>>
sumVars == <<sumFunc, selectedComp, doFloorGlobal, sumValue, sumState, intVars>>
otherVars == <<bufVars, strVars, prioVars, sumVars>>
ctlVars == <<lifeVars, verifyVars, procVars, otherVars>>
proxyVars == <<threadVars, lockVars, clientVars, workerVars, heapVars, semVars,
               lifeVars, verifyVars, procVars>>
vars == <<threadVars, lockVars, clientVars, workerVars, heapVars, semVars, ctlVars>>

NoOp == [name |-> "none", arg |-> 0]

\* ------------------------------------------------------------ XrdClientID
XrdClientID(pt, id) == [fP |-> pt, fSid |-> id]

IsValidInverted(c) == c.fP = NullP
IsValid(c) == c.fP # NullP

ResetKeepsSid(c) == [c EXCEPT !.fP = NullP]
Reset(c) == [fP |-> NullP, fSid |-> 0]

\* ------------------------------------------------------------- the lock
CanLockNotRecursive(t) == lockOwner = 0
\* XrdOucRecMutex: free, or held by one thread a number of times.
CanLock(t) == lockOwner = 0 \/ lockOwner = t

LocksNotSetID(name) == name \notin {"Mutex", "SetID"}
\* The methods whose body starts with XrdOucMutexHelper mhp(fMutex).
Locks(name) == name # "Mutex"

Call(t, o) ==
    /\ pc[t] = "idle"
    /\ IF Locks(o.name)
       THEN /\ CanLock(t)
            /\ lockOwner' = t
            /\ lockCount' = lockCount + 1
       ELSE UNCHANGED <<lockOwner, lockCount>>
    /\ pc' = [pc EXCEPT ![t] = "in"]
    /\ op' = [op EXCEPT ![t] = o]
    /\ UNCHANGED <<ret, held, stack>>

ReturnKeepsLock(t) ==
    /\ pc[t] = "out" /\ stack[t] = << >>
    /\ pc' = [pc EXCEPT ![t] = "idle"]
    /\ op' = [op EXCEPT ![t] = NoOp]
    /\ ret' = [ret EXCEPT ![t] = -1]
    /\ held' = [held EXCEPT ![t] = IF op[t].name \in {"GetFreeID", "PingSem", "Alias", "Workers"}
                                  THEN ret[t] ELSE @]
    /\ UNCHANGED stack
    /\ UNCHANGED <<lockOwner, lockCount>>
    /\ UNCHANGED <<clientVars, workerVars, heapVars, semVars, ctlVars>>
Return(t) ==
    /\ pc[t] = "out" /\ stack[t] = << >>
    /\ IF Locks(op[t].name)
       THEN /\ lockCount' = lockCount - 1
            /\ lockOwner' = IF lockCount = 1 THEN 0 ELSE lockOwner
       ELSE UNCHANGED <<lockOwner, lockCount>>
    /\ pc' = [pc EXCEPT ![t] = "idle"]
    /\ op' = [op EXCEPT ![t] = NoOp]
    /\ ret' = [ret EXCEPT ![t] = -1]
    /\ held' = [held EXCEPT ![t] = IF op[t].name \in {"GetFreeID", "PingSem", "Alias", "Workers"}
                                  THEN ret[t] ELSE @]
    /\ UNCHANGED stack
    /\ UNCHANGED <<clientVars, workerVars, heapVars, semVars, ctlVars>>

Body(t, name) == pc[t] = "in" /\ op[t].name = name
Done(t, r) ==
    /\ pc' = [pc EXCEPT ![t] = "out"]
    /\ ret' = [ret EXCEPT ![t] = r]
    /\ UNCHANGED <<op, lockOwner, lockCount, held, stack>>

\* ------------------------------------------------- client multiplexing
RECURSIVE ScanFree(_, _)
ScanFree(clients, ic) ==
    IF ic >= Len(clients) THEN ic
    ELSE IF ~IsValid(clients[ic + 1]) THEN ic
    ELSE ScanFree(clients, ic + 1)

\* The index GetFreeID() returns: the first invalid slot, else the length.
GetFreeID(clients) == ScanFree(clients, 0)

DoGetFreeID(t) ==
    /\ Body(t, "GetFreeID")
    /\ LET ic == GetFreeID(fClients) IN
        /\ fClients' = IF ic >= Len(fClients)
                       THEN Append(fClients, XrdClientID(NullP, 0))
                       ELSE fClients
        /\ issued' = issued \cup {ic}
        /\ Done(t, ic)
    /\ UNCHANGED <<workerVars, heapVars, semVars, ctlVars>>

RECURSIVE CountValid(_, _)
CountValid(clients, ic) ==
    IF ic >= Len(clients) THEN 0
    ELSE (IF IsValid(clients[ic + 1]) THEN 1 ELSE 0) + CountValid(clients, ic + 1)

GetNClients(clients) == CountValid(clients, 0)

DoGetNClients(t) ==
    /\ Body(t, "GetNClients")
    /\ Done(t, GetNClients(fClients))
    /\ UNCHANGED <<clientVars, workerVars, heapVars, semVars, ctlVars>>

GetClientIDFromOne(clients, id) ==
    IF id >= 1 /\ id < Len(clients) THEN clients[id + 1] ELSE XrdClientID(NullP, 0)
\* The handle GetClientID(id) returns: the one at index id, or an invalid
\* sentinel when id is out of range.
GetClientID(clients, id) ==
    IF id >= 0 /\ id < Len(clients) THEN clients[id + 1] ELSE XrdClientID(NullP, 0)

DoGetClientID(t) ==
    /\ Body(t, "GetClientID")
    /\ Done(t, GetClientID(fClients, op[t].arg))
    /\ UNCHANGED <<clientVars, workerVars, heapVars, semVars, ctlVars>>

\* The caller's attach: cid = GetClientID(id); cid->fP = this; cid->fSid = sid.
DoAttach(t) ==
    /\ Body(t, "Attach")
    /\ held[t] >= 0 /\ held[t] < Len(fClients)
    /\ fClients' = [fClients EXCEPT ![held[t] + 1] = XrdClientID(t, op[t].arg)]
    /\ pc' = [pc EXCEPT ![t] = "out"]
    /\ ret' = [ret EXCEPT ![t] = -1]
    /\ held' = [held EXCEPT ![t] = -1]
    /\ UNCHANGED <<op, stack, lockOwner, lockCount, issued>>
    /\ UNCHANGED <<workerVars, heapVars, semVars, ctlVars>>

\* The caller's detach of slot op.arg: GetClientID(k)->Reset().
DoDetach(t) ==
    /\ Body(t, "Detach")
    /\ op[t].arg < Len(fClients)
    /\ fClients' = [fClients EXCEPT ![op[t].arg + 1] = Reset(@)]
    /\ issued' = {}
    /\ Done(t, -1)
    /\ UNCHANGED <<workerVars, heapVars, semVars, ctlVars>>

ClientOps(t) ==
    {[name |-> "GetFreeID", arg |-> 0] : x \in {0} \cap
         (IF GetFreeID(fClients) < MaxClients THEN {0} ELSE {})}
    \cup {[name |-> "GetNClients", arg |-> 0]}
    \cup {[name |-> "GetClientID", arg |-> k] : k \in
         (IF held[t] < 0 THEN {-1, 0, Len(fClients) - 1, Len(fClients)} ELSE {})}
    \cup {[name |-> "Attach", arg |-> s] : s \in
         (IF held[t] >= 0 THEN {SidOf(t)} ELSE {})}
    \cup {[name |-> "Detach", arg |-> k] : k \in
         {i \in 0 .. Len(fClients) - 1 : fClients[i + 1].fP = t}}

ClientCall(t) ==
    /\ \E o \in ClientOps(t) : Call(t, o)
    /\ UNCHANGED <<clientVars, workerVars, heapVars, semVars, ctlVars>>

\* ------------------------------------------------------- client claims
\* The step in which thread t runs the body of operation name.
Ran(t, name) == pc[t] = "in" /\ op[t].name = name /\ pc'[t] = "out"
After(t, name) == pc[t] = "out" /\ op[t].name = name
ValidIdx(clients) == {i \in 0 .. Len(clients) - 1 : clients[i + 1].fP # NullP}

\* C1 (as claimed): with no detach in between, GetFreeID() never returns an
\* index it has already returned: all ids handed out are distinct.
C1_AllocatedIdsDistinct ==
    [][\A t \in Threads : Ran(t, "GetFreeID") => ret'[t] \notin issued]_vars

\* C2: GetFreeID() returns the smallest index whose slot is invalid and leaves
\* the sequence alone, or, when every slot is valid, appends one invalid slot
\* and returns the old length.
C2_GetFreeIDSmallestInvalid ==
    [][\A t \in Threads : Ran(t, "GetFreeID") =>
          LET r == ret'[t] IN
          /\ \A j \in 0 .. r - 1 : j \in ValidIdx(fClients)
          /\ IF r < Len(fClients)
             THEN r \notin ValidIdx(fClients) /\ fClients' = fClients
             ELSE /\ r = Len(fClients)
                  /\ fClients' = Append(fClients, [fP |-> NullP, fSid |-> 0])]_vars

\* GetFreeID() has just returned a detached index although a larger index is
\* unused as well and another slot is still attached.
C2_Witness ==
    \E t \in Threads :
        /\ After(t, "GetFreeID")
        /\ ret[t] + 1 < Len(fClients)
        /\ ValidIdx(fClients) # {}
        /\ \E j \in ret[t] + 1 .. Len(fClients) - 1 : j \notin ValidIdx(fClients)

\* C3: the value GetNClients() returns is the number of slots whose connection
\* reference is non-null.
C3_NClientsCountsValid ==
    \A t \in Threads :
        After(t, "GetNClients") => ret[t] = Cardinality(ValidIdx(fClients))

\* GetNClients() has returned a non-zero count smaller than the sequence length.
C3_Witness ==
    \E t \in Threads :
        After(t, "GetNClients") /\ ret[t] > 0 /\ ret[t] < Len(fClients)

\* C4: a detach of slot k leaves the sequence length alone, makes slot k
\* (null, 0) and changes no other slot; and no step shortens the sequence.
C4_DetachResetsOnlyItsSlot ==
    [][/\ Len(fClients') >= Len(fClients)
       /\ \A t \in Threads : Ran(t, "Detach") =>
             LET k == op[t].arg IN
             /\ Len(fClients') = Len(fClients)
             /\ fClients'[k + 1] = [fP |-> NullP, fSid |-> 0]
             /\ \A j \in 0 .. Len(fClients) - 1 :
                   j # k => fClients'[j + 1] = fClients[j + 1]]_vars

\* A slot has just been detached while another client is still attached.
C4_Witness ==
    \E t \in Threads :
        /\ After(t, "Detach")
        /\ fClients[op[t].arg + 1] = [fP |-> NullP, fSid |-> 0]
        /\ \E j \in ValidIdx(fClients) : fClients[j + 1].fSid # 0

\* C16: GetClientID(id) returns the handle at index id when 0 <= id < length
\* and an invalid handle otherwise, and leaves the sequence as it was.
C16_GetClientIDPureLookup ==
    [][\A t \in Threads : Ran(t, "GetClientID") =>
          LET id == op[t].arg IN
          /\ IF id >= 0 /\ id < Len(fClients)
             THEN ret'[t] = fClients[id + 1]
             ELSE ret'[t].fP = NullP
          /\ fClients' = fClients]_vars

\* GetClientID() has returned the sentinel for the index just past the end of
\* a sequence that holds an attached client.
C16_Witness ==
    \E t \in Threads :
        /\ After(t, "GetClientID")
        /\ op[t].arg = Len(fClients)
        /\ ValidIdx(fClients) # {}
        /\ ret[t] = [fP |-> NullP, fSid |-> 0]

\* ----------------------------------------------------------- worker pool
\* std::list::push_back
AddWorker(workers, w) == Append(workers, w)

RECURSIVE RemoveFirstOnly(_, _)
RemoveFirstOnly(workers, w) ==
    IF workers = << >> THEN << >>
    ELSE IF Head(workers) = w THEN Tail(workers)
    ELSE <<Head(workers)>> \o RemoveFirstOnly(Tail(workers), w)
\* std::list::remove: erases every element equal to w.
RECURSIVE RemoveWorker(_, _)
RemoveWorker(workers, w) ==
    IF workers = << >> THEN << >>
    ELSE IF Head(workers) = w THEN RemoveWorker(Tail(workers), w)
    ELSE <<Head(workers)>> \o RemoveWorker(Tail(workers), w)

\* std::list::size
GetNWorkers(workers) == Len(workers)

DoAddWorker(t) ==
    /\ Body(t, "AddWorker")
    /\ fWorkers' = AddWorker(fWorkers, op[t].arg)
    /\ Done(t, -1)
    /\ UNCHANGED <<clientVars, heapVars, semVars, ctlVars>>

DoRemoveWorker(t) ==
    /\ Body(t, "RemoveWorker")
    /\ fWorkers' = RemoveWorker(fWorkers, op[t].arg)
    /\ Done(t, -1)
    /\ UNCHANGED <<clientVars, heapVars, semVars, ctlVars>>

DoGetNWorkers(t) ==
    /\ Body(t, "GetNWorkers")
    /\ Done(t, GetNWorkers(fWorkers))
    /\ UNCHANGED <<clientVars, workerVars, heapVars, semVars, ctlVars>>

WorkerOps ==
    {[name |-> "AddWorker", arg |-> w] : w \in
         (IF Len(fWorkers) < MaxWorkers THEN WorkerRefs ELSE {})}
    \cup {[name |-> "RemoveWorker", arg |-> w] : w \in WorkerRefs}
    \cup {[name |-> "GetNWorkers", arg |-> 0]}

WorkerCall(t) ==
    /\ \E o \in WorkerOps : Call(t, o)
    /\ UNCHANGED <<clientVars, workerVars, heapVars, semVars, ctlVars>>

\* The pointer Workers() returns: the address of fWorkers.
WorkersRef == 1

\* inline std::list<XrdProofWorker *> *Workers() const
DoWorkers(t) ==
    /\ Body(t, "Workers")
    /\ Done(t, WorkersRef)
    /\ UNCHANGED <<clientVars, workerVars, heapVars, semVars, ctlVars>>

\* The caller uses the list through the pointer Workers() gave it, after
\* Workers() has returned: it inserts into it, erases from it, or only reads it.
UseWorkers(t) ==
    /\ pc[t] = "idle"
    /\ held[t] = WorkersRef
    /\ \/ \E w \in WorkerRefs : Len(fWorkers) < MaxWorkers /\ fWorkers' = AddWorker(fWorkers, w)
       \/ \E w \in WorkerRefs : fWorkers' = RemoveWorker(fWorkers, w)
       \/ UNCHANGED fWorkers
    /\ held' = [held EXCEPT ![t] = -1]
    /\ UNCHANGED <<pc, op, ret, stack, lockVars, clientVars, heapVars, semVars, ctlVars>>

AliasOps(t) ==
    {[name |-> "AddWorker", arg |-> w] : w \in
         (IF Len(fWorkers) < MaxWorkers THEN WorkerRefs ELSE {})}
    \cup {[name |-> "GetNWorkers", arg |-> 0]}
    \cup {[name |-> "Workers", arg |-> 0] : x \in IF held[t] < 0 THEN {0} ELSE {}}

AliasCall(t) ==
    /\ \E o \in AliasOps(t) : Call(t, o)
    /\ UNCHANGED <<clientVars, workerVars, heapVars, semVars, ctlVars>>

\* ------------------------------------------------------- worker claims
Members(workers) == {workers[i] : i \in 1 .. Len(workers)}
Occurrences(workers, w) == Cardinality({i \in 1 .. Len(workers) : workers[i] = w})

\* C5 (as claimed): AddWorker(w) for a w already in the pool leaves the number
\* of workers unchanged, and no worker is in the pool more than once.
C5_AddWorkerIdempotent ==
    [][/\ \A t \in Threads :
             (Ran(t, "AddWorker") /\ op[t].arg \in Members(fWorkers))
                 => GetNWorkers(fWorkers') = GetNWorkers(fWorkers)
       /\ \A w \in WorkerRefs : Occurrences(fWorkers', w) <= 1]_vars

\* C25 (as claimed): the worker pool and the client table change only in the
\* body of a method of the proxy run by the thread that holds the lock: no
\* thread changes a collection without holding the lock.
C25_CollectionsChangeUnderLock ==
    [][(fWorkers' # fWorkers \/ fClients' # fClients) =>
          /\ lockOwner # 0 /\ lockOwner' = lockOwner
          /\ pc[lockOwner] = "in" /\ pc'[lockOwner] = "out"]_vars

\* C6: RemoveWorker(w) changes nothing when w is not in the pool; in every case
\* w is absent afterwards and the other members keep their number and order.
C6_RemoveWorker ==
    [][\A t \in Threads : Ran(t, "RemoveWorker") =>
          LET w == op[t].arg IN
          /\ w \notin Members(fWorkers) => fWorkers' = fWorkers
          /\ w \notin Members(fWorkers')
          /\ Len(fWorkers') = Len(fWorkers) - Occurrences(fWorkers, w)
          /\ \A v \in WorkerRefs \ {w} :
                Occurrences(fWorkers', v) = Occurrences(fWorkers, v)
          /\ \A i, j \in 1 .. Len(fWorkers') :
                (i < j /\ fWorkers'[i] # fWorkers'[j]) =>
                    \E a, b \in 1 .. Len(fWorkers) :
                        a < b /\ fWorkers[a] = fWorkers'[i] /\ fWorkers[b] = fWorkers'[j]]_vars

\* RemoveWorker(w) has run, w is gone and another worker is still in the pool.
C6_Witness ==
    \E t \in Threads :
        /\ After(t, "RemoveWorker")
        /\ fWorkers # << >>
        /\ op[t].arg \notin Members(fWorkers)

\* ------------------------------------- ping semaphore, buffers, session id
\* Session ids the callers pass to SetID.
IdValues == {1, 2}

\* operator new: the next object of the heap.
New == nextObj + 1
Allocate ==
    /\ nextObj < MaxObjs
    /\ nextObj' = New
    /\ live' = live \cup {New}
\* operator delete
Delete(obj) ==
    /\ live' = live \ {obj}
    /\ UNCHANGED nextObj

\* inline XrdOucMutex *Mutex() { return fMutex; }
DoMutex(t) ==
    /\ Body(t, "Mutex")
    /\ Done(t, 0)
    /\ UNCHANGED <<clientVars, workerVars, heapVars, semVars, ctlVars>>

DoSetID(t) ==
    /\ Body(t, "SetID")
    /\ fID' = op[t].arg
    /\ Done(t, -1)
    /\ UNCHANGED <<clientVars, workerVars, heapVars, fPingSem, fQueryNum, fStartMsg, ctlVars>>

DoID(t) ==
    /\ Body(t, "ID")
    /\ Done(t, fID)
    /\ UNCHANGED <<clientVars, workerVars, heapVars, semVars, ctlVars>>

\* fPingSem = new XrdOucSemWait(0); the allocation may throw, and the helper's
\* destructor then runs while the exception unwinds.
DoCreatePingSem(t) ==
    /\ Body(t, "CreatePingSem")
    /\ \/ Allocate /\ fPingSem' = New
       \/ UNCHANGED <<heapVars, fPingSem>>
    /\ Done(t, -1)
    /\ UNCHANGED <<clientVars, workerVars, fQueryNum, fStartMsg, fID, ctlVars>>

DoDeletePingSem(t) ==
    /\ Body(t, "DeletePingSem")
    /\ IF fPingSem # 0 THEN Delete(fPingSem) ELSE UNCHANGED heapVars
    /\ fPingSem' = 0
    /\ Done(t, -1)
    /\ UNCHANGED <<clientVars, workerVars, fQueryNum, fStartMsg, fID, ctlVars>>

DoSetQueryNum(t) ==
    /\ Body(t, "SetQueryNum")
    /\ fQueryNum' = op[t].arg
    /\ Done(t, -1)
    /\ UNCHANGED <<clientVars, workerVars, heapVars, fPingSem, fStartMsg, fID, ctlVars>>

\* inline XrdSrvBuffer *QueryNum() const
DoQueryNum(t) ==
    /\ Body(t, "QueryNum")
    /\ Done(t, fQueryNum)
    /\ UNCHANGED <<clientVars, workerVars, heapVars, semVars, ctlVars>>

DeleteQueryNumKeepsPointer(t) ==
    /\ Body(t, "DeleteQueryNum")
    /\ IF fQueryNum # 0 THEN Delete(fQueryNum) ELSE UNCHANGED heapVars
    /\ Done(t, -1)
    /\ UNCHANGED <<clientVars, workerVars, semVars, ctlVars>>
DoDeleteQueryNum(t) ==
    /\ Body(t, "DeleteQueryNum")
    /\ IF fQueryNum # 0 THEN Delete(fQueryNum) ELSE UNCHANGED heapVars
    /\ fQueryNum' = 0
    /\ Done(t, -1)
    /\ UNCHANGED <<clientVars, workerVars, fPingSem, fStartMsg, fID, ctlVars>>

DoSetStartMsg(t) ==
    /\ Body(t, "SetStartMsg")
    /\ fStartMsg' = op[t].arg
    /\ Done(t, -1)
    /\ UNCHANGED <<clientVars, workerVars, heapVars, fPingSem, fQueryNum, fID, ctlVars>>

\* inline XrdSrvBuffer *StartMsg() const
DoStartMsg(t) ==
    /\ Body(t, "StartMsg")
    /\ Done(t, fStartMsg)
    /\ UNCHANGED <<clientVars, workerVars, heapVars, semVars, ctlVars>>

DoDeleteStartMsg(t) ==
    /\ Body(t, "DeleteStartMsg")
    /\ IF fStartMsg # 0 THEN Delete(fStartMsg) ELSE UNCHANGED heapVars
    /\ fStartMsg' = 0
    /\ Done(t, -1)
    /\ UNCHANGED <<clientVars, workerVars, fPingSem, fQueryNum, fID, ctlVars>>

SemOps ==
    {[name |-> n, arg |-> 0] : n \in {"Mutex", "ID", "CreatePingSem", "DeletePingSem",
                                      "DeleteQueryNum", "DeleteStartMsg",
                                      "QueryNum", "StartMsg"}}
    \cup {[name |-> "SetID", arg |-> i] : i \in IdValues}

\* A call of one of the operations above.
SemCall(t) ==
    /\ \E o \in SemOps : Call(t, o)
    /\ UNCHANGED <<clientVars, workerVars, heapVars, semVars, ctlVars>>

\* A call of SetQueryNum or SetStartMsg with a buffer the caller has just
\* allocated (new XrdSrvBuffer).
BufferCall(t) ==
    /\ Allocate
    /\ \E n \in {"SetQueryNum", "SetStartMsg"} : Call(t, [name |-> n, arg |-> New])
    /\ UNCHANGED <<clientVars, workerVars, semVars, ctlVars>>

\* ------------------------------------------------------------ XrdSrvBuffer
\* Pointers (char *): 0 is null, the others are blocks of memory.  CallerBlocks
\* are the buffers a caller passes as bp, Copy is the block malloc() returns.
CallerBlocks == {1, 2}
Copy == 3
Pointers == {0} \cup CallerBlocks \cup {Copy}
Sizes == -1 .. MaxSize

\* The objects XrdSrvBuffer(bp, sz, dup) can construct.  When the copy is asked
\* for and malloc() fails, fMembuf is null and neither fBuff nor fSize is
\* assigned: they hold whatever the memory held.
XrdSrvBuffer(bp, sz, dup) ==
    IF dup /\ bp # 0 /\ sz > 0
    THEN {[fSize |-> sz, fBuff |-> Copy, fMembuf |-> Copy]}
         \cup {[fSize |-> s, fBuff |-> b, fMembuf |-> 0] : s \in Sizes, b \in Pointers}
    ELSE {[fSize |-> sz, fBuff |-> bp, fMembuf |-> bp]}

\* new XrdSrvBuffer(bp, sz, dup)
NewXrdSrvBuffer ==
    /\ bufState # "built"
    /\ \E bp \in {0} \cup CallerBlocks, sz \in Sizes, dup \in BOOLEAN :
          /\ bufArgs' = [bp |-> bp, sz |-> sz, dup |-> dup]
          /\ \E b \in XrdSrvBuffer(bp, sz, dup) : buf' = b
    /\ bufState' = "built"
    /\ freed' = {}
    /\ UNCHANGED <<proxyVars, strVars, prioVars, sumVars>>

\* ~XrdSrvBuffer() {if (fMembuf) free(fMembuf);}
DeleteXrdSrvBuffer ==
    /\ bufState = "built"
    /\ freed' = IF buf.fMembuf # 0 THEN {buf.fMembuf} ELSE {}
    /\ bufState' = "destroyed"
    /\ UNCHANGED <<bufArgs, buf>>
    /\ UNCHANGED <<proxyVars, strVars, prioVars, sumVars>>

\* C12 (as claimed): every XrdSrvBuffer, whatever it was constructed with, has
\* fSize > 0 exactly when fBuff is non-null.
C12_SizePositiveIffBuffer ==
    bufState = "built" => ((buf.fSize > 0) <=> (buf.fBuff # 0))

\* ------------------------------------------------------- buffer claims
\* C13 (as claimed): a SetQueryNum or SetStartMsg called while its holder is
\* non-empty frees the XrdSrvBuffer held before, so that no replaced buffer
\* stays allocated.
C13_SetFreesPrevious ==
    [][\A t \in Threads :
          /\ (Ran(t, "SetQueryNum") /\ fQueryNum # 0 /\ fQueryNum # op[t].arg)
                => fQueryNum \notin live'
          /\ (Ran(t, "SetStartMsg") /\ fStartMsg # 0 /\ fStartMsg # op[t].arg)
                => fStartMsg \notin live']_vars

\* C14: DeleteQueryNum() and DeleteStartMsg() leave their holder null; they
\* free the buffer it held, which was allocated until then, and nothing else,
\* and change nothing at all when the holder was null already.  QueryNum() and
\* StartMsg() return the holder, which stays null until SetQueryNum() or
\* SetStartMsg() runs.
C14_DeleteFreesOnceAndEmpties ==
    [][\A t \in Threads :
          /\ Ran(t, "DeleteQueryNum") =>
                /\ fQueryNum' = 0
                /\ IF fQueryNum # 0
                   THEN fQueryNum \in live /\ live' = live \ {fQueryNum}
                   ELSE live' = live
                /\ UNCHANGED <<fStartMsg, fPingSem, fID, nextObj>>
          /\ Ran(t, "DeleteStartMsg") =>
                /\ fStartMsg' = 0
                /\ IF fStartMsg # 0
                   THEN fStartMsg \in live /\ live' = live \ {fStartMsg}
                   ELSE live' = live
                /\ UNCHANGED <<fQueryNum, fPingSem, fID, nextObj>>
          /\ Ran(t, "QueryNum") => ret'[t] = fQueryNum
          /\ Ran(t, "StartMsg") => ret'[t] = fStartMsg
          /\ (fQueryNum = 0 /\ fQueryNum' # 0) => \E u \in Threads : Ran(u, "SetQueryNum")
          /\ (fStartMsg = 0 /\ fStartMsg' # 0) => \E u \in Threads : Ran(u, "SetStartMsg")]_vars

\* DeleteQueryNum() has run and left its holder null: of the buffers allocated
\* only the start message is still allocated, and it is still held.
C14_Witness ==
    \E t \in Threads :
        /\ After(t, "DeleteQueryNum")
        /\ fQueryNum = 0 /\ fStartMsg # 0
        /\ nextObj > 1 /\ live = {fStartMsg}

\* ---------------------------------------------------------- string fields
\* The strings (const char *) the callers pass: null, or characters.
Chars == {"a", "b"}
Texts == UNION {[1 .. n -> Chars] : n \in 0 .. MaxStr}
NullString == [null |-> TRUE, chars |-> << >>]
Strings == {NullString} \cup {[null |-> FALSE, chars |-> c] : c \in Texts}

\* The characters SetCharValue(carr, v, len) stores: len of them when len is
\* given, else all of v; none for a null v.
Stored(v, len) ==
    IF v.null THEN << >>
    ELSE SubSeq(v.chars, 1, IF len > 0 THEN len ELSE Len(v.chars))

\* SetAlias(a, l): SetCharValue(&fAlias, a, l) frees the buffer held before
\* and, unless there is nothing to store, copies into a new one.
DoSetAlias(t) ==
    /\ Body(t, "SetAlias")
    /\ LET txt == Stored(op[t].arg.v, op[t].arg.len) IN
        /\ aliasText' = txt
        /\ IF txt = << >>
           THEN /\ fAlias' = 0
                /\ live' = live \ {fAlias}
                /\ UNCHANGED nextObj
           ELSE /\ nextObj < MaxObjs
                /\ fAlias' = New
                /\ live' = (live \ {fAlias}) \cup {New}
                /\ nextObj' = New
    /\ Done(t, -1)
    /\ UNCHANGED <<clientVars, workerVars, semVars, lifeVars, verifyVars, procVars,
                   bufVars, prioVars, sumVars>>

\* inline const char *Alias() const
DoAlias(t) ==
    /\ Body(t, "Alias")
    /\ Done(t, fAlias)
    /\ UNCHANGED <<clientVars, workerVars, heapVars, semVars, ctlVars>>

\* The caller reads the characters at the pointer Alias() gave it.
ReadString(t) ==
    /\ pc[t] = "idle"
    /\ held[t] >= 0
    /\ held' = [held EXCEPT ![t] = -1]
    /\ UNCHANGED <<pc, op, ret, stack, lockVars, clientVars, workerVars, heapVars, semVars, ctlVars>>

StringOps(t) ==
    {[name |-> "Alias", arg |-> 0] : x \in IF held[t] < 0 THEN {0} ELSE {}}
    \cup {o \in {[name |-> "SetAlias", arg |-> [v |-> v, len |-> l]] :
                     v \in {w \in Strings : Len(w.chars) = 0 \/ nextObj < MaxObjs},
                     l \in 0 .. MaxStr} : o.arg.len <= Len(o.arg.v.chars)}

StringCall(t) ==
    /\ \E o \in StringOps(t) : Call(t, o)
    /\ UNCHANGED <<clientVars, workerVars, heapVars, semVars, ctlVars>>

\* ------------------------------------------------------- string claims
\* The step in which thread t reads through the pointer it holds.
Reads(t) == pc[t] = "idle" /\ pc'[t] = "idle" /\ held[t] >= 0 /\ held'[t] = -1

\* C15 (as claimed): a SetAlias() with a null or empty string frees the buffer
\* held before and leaves the field empty, no buffer is leaked, and no caller
\* reads through a pointer Alias() returned after a setter has freed the
\* buffer it points to.
C15_SettersFreeAndNoDanglingRead ==
    [][\A t \in Threads :
          /\ (Ran(t, "SetAlias") /\ Stored(op[t].arg.v, op[t].arg.len) = << >>) =>
                (fAlias' = 0 /\ aliasText' = << >> /\ fAlias \notin live')
          /\ Ran(t, "SetAlias") => live' \subseteq {fAlias'}
          /\ Reads(t) => (held[t] = 0 \/ held[t] \in live)]_vars

\* ------------------------------------ VerifyProofServ, TerminateProofServ
\* The control thread that verifies and terminates, and the transport thread
\* on which the worker's reply to a ping arrives.
Verifier == CHOOSE t \in Threads : \A u \in Threads : t <= u
Transport == Verifier + 1
\* The grace period TerminateProofServ gives the process to exit.
Grace == 2

\* inline XrdOucSemWait *PingSem() const
PingSemNull(sem) == 0
PingSem(sem) == sem

DoPingSem(t) ==
    /\ Body(t, "PingSem")
    /\ Done(t, PingSem(fPingSem))
    /\ UNCHANGED <<clientVars, workerVars, heapVars, semVars, ctlVars>>

\* A thread posts the semaphore PingSem() gave it, if any, after PingSem() has
\* returned; the post goes to freed memory when DeletePingSem() has run since.
Post(t) ==
    /\ pc[t] = "idle"
    /\ held[t] >= 0
    /\ LET sem == held[t] IN
        /\ posted' = IF sem # 0 /\ sem \in live THEN posted \cup {sem} ELSE posted
        /\ staleUse' = (staleUse \/ (sem # 0 /\ sem \notin live))
    /\ held' = [held EXCEPT ![t] = -1]
    /\ UNCHANGED <<vpc, vret, timeout, delay, willReply, pending, elapsed, tpc>>
    /\ UNCHANGED <<pc, op, ret, stack, lockVars, clientVars, workerVars, heapVars, semVars,
                   lifeVars, procVars, otherVars>>

PingOps(t) ==
    {[name |-> n, arg |-> 0] : n \in {"CreatePingSem", "DeletePingSem"}}
    \cup {[name |-> "PingSem", arg |-> 0] : x \in IF held[t] < 0 THEN {0} ELSE {}}

PingCall(t) ==
    /\ \E o \in PingOps(t) : Call(t, o)
    /\ UNCHANGED <<clientVars, workerVars, heapVars, semVars, ctlVars>>

\* C27 (as claimed): no thread posts on a semaphore DeletePingSem() has freed,
\* CreatePingSem() never overwrites a semaphore that is still allocated, and
\* every semaphore allocated and not freed is the one the proxy holds.
C27_PingSemNoUseAfterDeleteNoLeak ==
    [][/\ ~staleUse'
       /\ \A t \in Threads :
             (Ran(t, "CreatePingSem") /\ fPingSem # 0 /\ fPingSem \in live)
                 => fPingSem' = fPingSem
       /\ live' \subseteq {fPingSem'}]_vars

NeverExpired(waited, limit) == FALSE
\* A bounded wait of limit time units has run out.
Expired(waited, limit) == waited >= limit

\* bool IsValid() const, named apart from XrdClientID::IsValid; the bool it
\* returns is written as the integer it converts to.
ProxyIsValidNegated(valid) == IF valid THEN 0 ELSE 1
ProxyIsValid(valid) == IF valid THEN 1 ELSE 0

DoIsValid(t) ==
    /\ Body(t, "IsValid")
    /\ Done(t, ProxyIsValid(fIsValid))
    /\ UNCHANGED <<clientVars, workerVars, heapVars, semVars, ctlVars>>

\* inline void SetValid(bool valid = 1)
DoSetValid(t) ==
    /\ Body(t, "SetValid")
    /\ fIsValid' = op[t].arg
    /\ Done(t, -1)
    /\ UNCHANGED <<fStatus, fIsShutdown>>
    /\ UNCHANGED <<clientVars, workerVars, heapVars, semVars, verifyVars, procVars, otherVars>>

\* inline void SetShutdown(bool sd = 1)
DoSetShutdown(t) ==
    /\ Body(t, "SetShutdown")
    /\ fIsShutdown' = op[t].arg
    /\ Done(t, -1)
    /\ UNCHANGED <<fIsValid, fStatus>>
    /\ UNCHANGED <<clientVars, workerVars, heapVars, semVars, verifyVars, procVars, otherVars>>

\* VerifyProofServ(timeout) is called.
VerifyStart ==
    /\ vpc = "idle" /\ pc[Verifier] = "idle"
    /\ ~pending /\ tpc = "idle"
    /\ \E T \in 1 .. MaxTimeout : timeout' = T
    /\ vpc' = "create"
    /\ vret' = "none"
    /\ UNCHANGED <<delay, willReply, pending, elapsed, posted, tpc, staleUse>>
    /\ UNCHANGED <<threadVars, lockVars, clientVars, workerVars, heapVars, semVars,
                   lifeVars, procVars, otherVars>>

\* It creates the semaphore: CreatePingSem().
VerifyCreate ==
    /\ vpc = "create"
    /\ Call(Verifier, [name |-> "CreatePingSem", arg |-> 0])
    /\ vpc' = "created"
    /\ UNCHANGED <<vret, timeout, delay, willReply, pending, elapsed, posted, tpc, staleUse>>
    /\ UNCHANGED <<clientVars, workerVars, heapVars, semVars, lifeVars, procVars, otherVars>>

\* The allocation threw: the exception leaves VerifyProofServ.
VerifyCreateFailed ==
    /\ vpc = "created" /\ pc[Verifier] = "idle"
    /\ fPingSem = 0
    /\ vpc' = "done"
    /\ vret' = "error"
    /\ UNCHANGED <<timeout, delay, willReply, pending, elapsed, posted, tpc, staleUse>>
    /\ UNCHANGED <<threadVars, lockVars, clientVars, workerVars, heapVars, semVars,
                   lifeVars, procVars, otherVars>>

\* It sends the ping to the worker, which replies after some delay, or never;
\* or the send fails.
VerifySend ==
    /\ vpc = "created" /\ pc[Verifier] = "idle"
    /\ fPingSem # 0
    /\ \/ /\ \E D \in 1 .. MaxDelay : delay' = D
          /\ \E r \in BOOLEAN : willReply' = r /\ pending' = r
          /\ elapsed' = 0
          /\ vpc' = "wait"
          /\ vret' = vret
       \/ /\ vpc' = "delete"
          /\ vret' = "error"
          /\ UNCHANGED <<delay, willReply, pending, elapsed>>
    /\ UNCHANGED <<timeout, posted, tpc, staleUse>>
    /\ UNCHANGED <<threadVars, lockVars, clientVars, workerVars, heapVars, semVars,
                   lifeVars, procVars, otherVars>>

\* The wait on the semaphore ends because the semaphore was posted.
VerifyWake ==
    /\ vpc = "wait"
    /\ fPingSem \in posted
    /\ posted' = posted \ {fPingSem}
    /\ vpc' = "delete"
    /\ vret' = "success"
    /\ UNCHANGED <<timeout, delay, willReply, pending, elapsed, tpc, staleUse>>
    /\ UNCHANGED <<threadVars, lockVars, clientVars, workerVars, heapVars, semVars,
                   lifeVars, procVars, otherVars>>

\* The wait on the semaphore ends because the timeout has run out.
VerifyTimeout ==
    /\ vpc = "wait"
    /\ fPingSem \notin posted
    /\ Expired(elapsed, timeout)
    /\ vpc' = "delete"
    /\ vret' = "timeout"
    /\ UNCHANGED <<timeout, delay, willReply, pending, elapsed, posted, tpc, staleUse>>
    /\ UNCHANGED <<threadVars, lockVars, clientVars, workerVars, heapVars, semVars,
                   lifeVars, procVars, otherVars>>

\* It deletes the semaphore: DeletePingSem().
VerifyDelete ==
    /\ vpc = "delete"
    /\ Call(Verifier, [name |-> "DeletePingSem", arg |-> 0])
    /\ vpc' = "deleted"
    /\ UNCHANGED <<vret, timeout, delay, willReply, pending, elapsed, posted, tpc, staleUse>>
    /\ UNCHANGED <<clientVars, workerVars, heapVars, semVars, lifeVars, procVars, otherVars>>

VerifyValidateAlways ==
    /\ vpc = "deleted"
    /\ Call(Verifier, [name |-> "SetValid", arg |-> TRUE])
    /\ vpc' = "validate"
    /\ UNCHANGED <<vret, timeout, delay, willReply, pending, elapsed, posted, tpc, staleUse>>
    /\ UNCHANGED <<clientVars, workerVars, heapVars, semVars, lifeVars, procVars, otherVars>>
\* The worker has answered: the session is marked valid.
VerifyValidate ==
    /\ vpc = "deleted" /\ vret = "success"
    /\ Call(Verifier, [name |-> "SetValid", arg |-> TRUE])
    /\ vpc' = "validate"
    /\ UNCHANGED <<vret, timeout, delay, willReply, pending, elapsed, posted, tpc, staleUse>>
    /\ UNCHANGED <<clientVars, workerVars, heapVars, semVars, lifeVars, procVars, otherVars>>

\* VerifyProofServ returns vret.
VerifyReturn ==
    /\ \/ vpc = "deleted" /\ vret # "success"
       \/ vpc = "validate"
    /\ pc[Verifier] = "idle"
    /\ vpc' = "done"
    /\ UNCHANGED <<vret, timeout, delay, willReply, pending, elapsed, posted, tpc, staleUse>>
    /\ UNCHANGED <<threadVars, lockVars, clientVars, workerVars, heapVars, semVars,
                   lifeVars, procVars, otherVars>>

\* The caller has the result and may call again.
CallerContinues ==
    /\ vpc \in {"done", "termdone"} /\ pc[Verifier] = "idle"
    /\ vpc' = "idle"
    /\ UNCHANGED <<vret, timeout, delay, willReply, pending, elapsed, posted, tpc, staleUse>>
    /\ UNCHANGED <<threadVars, lockVars, clientVars, workerVars, heapVars, semVars,
                   lifeVars, procVars, otherVars>>

\* The worker's reply reaches the transport thread.
ReplyArrives ==
    /\ pending /\ willReply /\ elapsed = delay
    /\ tpc = "idle"
    /\ pending' = FALSE
    /\ tpc' = "recv"
    /\ UNCHANGED <<vpc, vret, timeout, delay, willReply, elapsed, posted, staleUse>>
    /\ UNCHANGED <<threadVars, lockVars, clientVars, workerVars, heapVars, semVars,
                   lifeVars, procVars, otherVars>>

\* The transport thread asks the proxy for the semaphore: PingSem().
TransportPingSem ==
    /\ tpc = "recv"
    /\ Call(Transport, [name |-> "PingSem", arg |-> 0])
    /\ tpc' = "asked"
    /\ UNCHANGED <<vpc, vret, timeout, delay, willReply, pending, elapsed, posted, staleUse>>
    /\ UNCHANGED <<clientVars, workerVars, heapVars, semVars, lifeVars, procVars, otherVars>>

\* The transport thread posts the semaphore it was given, if any.  The pointer
\* was read under the lock, which PingSem() released on return: when
\* DeletePingSem() has freed the semaphore meanwhile the post goes to freed
\* memory, which staleUse records; no waiter is left to see it.
TransportPost ==
    /\ tpc = "asked" /\ pc[Transport] = "idle"
    /\ LET sem == held[Transport] IN
        /\ posted' = IF sem # 0 /\ sem \in live THEN posted \cup {sem} ELSE posted
        /\ staleUse' = (staleUse \/ (sem # 0 /\ sem \notin live))
    /\ held' = [held EXCEPT ![Transport] = -1]
    /\ tpc' = "idle"
    /\ UNCHANGED <<vpc, vret, timeout, delay, willReply, pending, elapsed>>
    /\ UNCHANGED <<pc, op, ret, stack, lockVars, clientVars, workerVars, heapVars, semVars,
                   lifeVars, procVars, otherVars>>

\* The caller asks the session to shut down: SetShutdown().
ShutdownRequest ==
    /\ vpc = "idle" /\ ~fIsShutdown
    /\ Call(Verifier, [name |-> "SetShutdown", arg |-> TRUE])
    /\ UNCHANGED <<clientVars, workerVars, heapVars, semVars, ctlVars>>

\* The caller asks the proxy whether it is valid: IsValid().
CallerIsValid ==
    /\ vpc \in {"done", "termdone"}
    /\ Call(Verifier, [name |-> "IsValid", arg |-> 0])
    /\ UNCHANGED <<clientVars, workerVars, heapVars, semVars, ctlVars>>

\* The process ids a caller records with SetSrv.
Pids == {1, 2}

\* SetSrv(id): records the id of the session's process.
DoSetSrv(t) ==
    /\ Body(t, "SetSrv")
    /\ fSrvID' = op[t].arg
    /\ Done(t, -1)
    /\ UNCHANGED <<procAlive, sigs, sigPids>>
    /\ UNCHANGED <<clientVars, workerVars, heapVars, semVars, lifeVars, verifyVars, otherVars>>

\* The caller records the id of the process it has started for the session.
CallerSetSrv ==
    /\ vpc = "idle" /\ sigs = << >>
    /\ \E id \in Pids \ {fSrvID} : Call(Verifier, [name |-> "SetSrv", arg |-> id])
    /\ UNCHANGED <<clientVars, workerVars, heapVars, semVars, ctlVars>>

\* TerminateProofServ() is called; it holds the lock until it returns.
TermStart ==
    /\ vpc = "idle" /\ ~pending /\ tpc = "idle"
    /\ Len(sigs) + 2 <= MaxSigs
    /\ Call(Verifier, [name |-> "TerminateProofServ", arg |-> 0])
    /\ vpc' = "term"
    /\ UNCHANGED <<vret, timeout, delay, willReply, pending, elapsed, posted, tpc, staleUse>>
    /\ UNCHANGED <<clientVars, workerVars, heapVars, semVars, lifeVars, procVars, otherVars>>

\* It sends the termination signal to the controlled process.
TermSignal ==
    /\ vpc = "term"
    /\ sigs' = Append(sigs, "TERM")
    /\ sigPids' = Append(sigPids, fSrvID)
    /\ elapsed' = 0
    /\ vpc' = "grace"
    /\ UNCHANGED <<vret, timeout, delay, willReply, pending, posted, tpc, staleUse>>
    /\ UNCHANGED <<threadVars, lockVars, clientVars, workerVars, heapVars, semVars,
                   lifeVars, procAlive, fSrvID, otherVars>>

\* The bounded wait for the exit ends because the process has exited.
TermExited ==
    /\ vpc = "grace"
    /\ ~procAlive
    /\ vpc' = "mark"
    /\ UNCHANGED <<vret, timeout, delay, willReply, pending, elapsed, posted, tpc, staleUse>>
    /\ UNCHANGED <<threadVars, lockVars, clientVars, workerVars, heapVars, semVars,
                   lifeVars, procVars, otherVars>>

TermEscalateAtOnce ==
    /\ vpc = "grace"
    /\ procAlive
    /\ sigs' = Append(sigs, "KILL")
    /\ sigPids' = Append(sigPids, fSrvID)
    /\ vpc' = "mark"
    /\ UNCHANGED <<vret, timeout, delay, willReply, pending, elapsed, posted, tpc, staleUse>>
    /\ UNCHANGED <<threadVars, lockVars, clientVars, workerVars, heapVars, semVars,
                   lifeVars, procAlive, fSrvID, otherVars>>
\* The bounded wait ends because the grace period has run out: the forceful
\* signal is sent.
TermEscalate ==
    /\ vpc = "grace"
    /\ procAlive
    /\ Expired(elapsed, Grace)
    /\ sigs' = Append(sigs, "KILL")
    /\ sigPids' = Append(sigPids, fSrvID)
    /\ vpc' = "mark"
    /\ UNCHANGED <<vret, timeout, delay, willReply, pending, elapsed, posted, tpc, staleUse>>
    /\ UNCHANGED <<threadVars, lockVars, clientVars, workerVars, heapVars, semVars,
                   lifeVars, procAlive, fSrvID, otherVars>>

\* It marks the proxy invalid and terminated.
TermMark ==
    /\ vpc = "mark"
    /\ Body(Verifier, "TerminateProofServ")
    /\ fIsValid' = FALSE
    /\ fStatus' = "Terminated"
    /\ UNCHANGED fIsShutdown
    /\ Done(Verifier, -1)
    /\ vpc' = "marked"
    /\ UNCHANGED <<vret, timeout, delay, willReply, pending, elapsed, posted, tpc, staleUse>>
    /\ UNCHANGED <<clientVars, workerVars, heapVars, semVars, procVars, otherVars>>

\* TerminateProofServ returns.
TermReturn ==
    /\ vpc = "marked" /\ pc[Verifier] = "idle"
    /\ vpc' = "termdone"
    /\ UNCHANGED <<vret, timeout, delay, willReply, pending, elapsed, posted, tpc, staleUse>>
    /\ UNCHANGED <<threadVars, lockVars, clientVars, workerVars, heapVars, semVars,
                   lifeVars, procVars, otherVars>>

\* The controlled process exits after a signal; it may also never do so.
ProcExit ==
    /\ procAlive
    /\ sigs # << >>
    /\ procAlive' = FALSE
    /\ UNCHANGED <<threadVars, lockVars, clientVars, workerVars, heapVars, semVars,
                   lifeVars, verifyVars, sigs, fSrvID, sigPids, otherVars>>

\* Time passes, unless a reply is due or being handled, or a wait is over.
Tick ==
    /\ vpc \in {"wait", "grace"} \/ pending
    /\ tpc = "idle"
    /\ ~(pending /\ elapsed = delay)
    /\ vpc = "wait" => (~Expired(elapsed, timeout) /\ fPingSem \notin posted)
    /\ vpc = "grace" => (procAlive /\ ~Expired(elapsed, Grace))
    /\ elapsed < MaxTimeout + MaxDelay + Grace
    /\ elapsed' = elapsed + 1
    /\ UNCHANGED <<vpc, vret, timeout, delay, willReply, pending, posted, tpc, staleUse>>
    /\ UNCHANGED <<threadVars, lockVars, clientVars, workerVars, heapVars, semVars,
                   lifeVars, procVars, otherVars>>

\* The steps of the control thread inside a call, and those of the transport
\* thread handling a reply.
ControlStep ==
    \/ VerifyCreate \/ VerifyCreateFailed \/ VerifySend \/ VerifyWake \/ VerifyTimeout
    \/ VerifyDelete \/ VerifyValidate \/ VerifyReturn
    \/ TermSignal \/ TermExited \/ TermEscalate \/ TermMark \/ TermReturn
    \/ DoCreatePingSem(Verifier) \/ DoDeletePingSem(Verifier) \/ DoSetValid(Verifier)
    \/ DoSetShutdown(Verifier) \/ DoIsValid(Verifier) \/ Return(Verifier)
TransportStep ==
    \/ ReplyArrives \/ TransportPingSem \/ TransportPost
    \/ DoPingSem(Transport) \/ Return(Transport)

\* ------------------------------------------------------- verify claims
\* C9: VerifyProofServ returns success only if the worker replies within the
\* timeout; it returns the timeout result when the worker never replies or its
\* reply takes longer than the timeout, and success when the reply takes less.
C9_VerifyResultFollowsTiming ==
    vret \in {"success", "timeout"} =>
        /\ vret = "success" => (willReply /\ delay <= timeout)
        /\ (willReply /\ delay < timeout) => vret = "success"
        /\ (~willReply \/ delay > timeout) => vret = "timeout"

\* VerifyProofServ has returned the timeout result, and the worker's reply has
\* arrived on the transport thread after that.
C9_Witness ==
    /\ vpc = "done" /\ vret = "timeout"
    /\ willReply /\ delay > timeout
    /\ ~pending /\ tpc = "idle" /\ elapsed = delay

\* C10: every call of VerifyProofServ and of TerminateProofServ returns; the
\* wait for the ping reply never outlasts the timeout, the wait for the exit
\* never outlasts the grace period, and a ping never answered gives the timeout
\* result.
C10_CallsReturn ==
    /\ [](vpc = "wait" => elapsed <= timeout)
    /\ [](vpc = "grace" => elapsed <= Grace)
    /\ []((vret \in {"success", "timeout"} /\ ~willReply) => vret = "timeout")
    /\ [](vpc \notin {"idle", "done", "termdone"} => <>(vpc \in {"done", "termdone"}))

\* A VerifyProofServ whose ping was never answered has returned the timeout
\* result, and a later TerminateProofServ has returned although the process
\* has not exited after both signals.
C10_Witness ==
    /\ vpc = "termdone"
    /\ procAlive /\ sigs = <<"TERM", "KILL">>
    /\ vret = "timeout" /\ ~willReply

\* ------------------------------------------- SetShutdownTimer, nested calls
\* bool IsShutdown() const; the bool is written as the integer it converts to.
DoIsShutdown(t) ==
    /\ Body(t, "IsShutdown")
    /\ Done(t, IF fIsShutdown THEN 1 ELSE 0)
    /\ UNCHANGED <<clientVars, workerVars, heapVars, semVars, ctlVars>>

\* SetShutdownTimer(opt, delay, on), holding the lock, flips the shutdown flag
\* by calling SetShutdown(on): the helper of SetShutdown locks fMutex again.
TimerSetShutdown(t) ==
    /\ Body(t, "SetShutdownTimer")
    /\ ~op[t].arg.called
    /\ CanLock(t)
    /\ lockOwner' = t
    /\ lockCount' = lockCount + 1
    /\ stack' = [stack EXCEPT ![t] = <<[op[t] EXCEPT !.arg.called = TRUE]>> \o @]
    /\ op' = [op EXCEPT ![t] = [name |-> "SetShutdown", arg |-> op[t].arg.on]]
    /\ UNCHANGED <<pc, ret, held>>
    /\ UNCHANGED <<clientVars, workerVars, heapVars, semVars, ctlVars>>

\* The inner call returns into the operation that made it: the helper of the
\* inner call unlocks once.
NestedReturn(t) ==
    /\ pc[t] = "out" /\ stack[t] # << >>
    /\ lockCount' = lockCount - 1
    /\ lockOwner' = IF lockCount = 1 THEN 0 ELSE lockOwner
    /\ op' = [op EXCEPT ![t] = Head(stack[t])]
    /\ stack' = [stack EXCEPT ![t] = Tail(@)]
    /\ pc' = [pc EXCEPT ![t] = "in"]
    /\ ret' = [ret EXCEPT ![t] = -1]
    /\ UNCHANGED held
    /\ UNCHANGED <<clientVars, workerVars, heapVars, semVars, ctlVars>>

\* SetShutdownTimer returns 0 once the flag is set.
DoSetShutdownTimer(t) ==
    /\ Body(t, "SetShutdownTimer")
    /\ op[t].arg.called
    /\ Done(t, 0)
    /\ UNCHANGED <<clientVars, workerVars, heapVars, semVars, ctlVars>>

TimerOps ==
    {[name |-> "SetShutdownTimer", arg |-> [on |-> on, called |-> FALSE]] : on \in BOOLEAN}
    \cup {[name |-> "SetValid", arg |-> b] : b \in BOOLEAN}
    \cup {[name |-> n, arg |-> 0] : n \in {"IsShutdown", "IsValid"}}

TimerCall(t) ==
    /\ \E o \in TimerOps : Call(t, o)
    /\ UNCHANGED <<clientVars, workerVars, heapVars, semVars, ctlVars>>

\* The steps a thread takes once it is inside an operation.
InsideStep(t) ==
    \/ TimerSetShutdown(t) \/ DoSetShutdown(t) \/ NestedReturn(t)
    \/ DoSetShutdownTimer(t) \/ DoIsShutdown(t)
    \/ DoSetValid(t) \/ DoIsValid(t) \/ Return(t)

\* ------------------------------------------------------------------ Reset
\* inline void SetStatus(int st)
DoSetStatus(t) ==
    /\ Body(t, "SetStatus")
    /\ fStatus' = op[t].arg
    /\ Done(t, -1)
    /\ UNCHANGED <<fIsValid, fIsShutdown>>
    /\ UNCHANGED <<clientVars, workerVars, heapVars, semVars, verifyVars, procVars, otherVars>>

ResetKeepsWorkers(t) ==
    /\ Body(t, "Reset")
    /\ fClients' = << >> /\ issued' = {}
    /\ live' = live \ {fQueryNum, fStartMsg}
    /\ fQueryNum' = 0 /\ fStartMsg' = 0 /\ fID' = -1
    /\ fIsValid' = FALSE /\ fIsShutdown' = FALSE /\ fStatus' = "Unvalidated"
    /\ Done(t, -1)
    /\ UNCHANGED <<fWorkers, nextObj, fPingSem, verifyVars, procVars, otherVars>>
\* Reset(): the buffered messages are deleted, the client and worker
\* collections cleared, the id, the flags and the status set as constructed.
DoReset(t) ==
    /\ Body(t, "Reset")
    /\ fClients' = << >> /\ issued' = {}
    /\ fWorkers' = << >>
    /\ live' = live \ {fQueryNum, fStartMsg}
    /\ fQueryNum' = 0 /\ fStartMsg' = 0 /\ fID' = -1
    /\ fIsValid' = FALSE /\ fIsShutdown' = FALSE /\ fStatus' = "Unvalidated"
    /\ Done(t, -1)
    /\ UNCHANGED <<nextObj, fPingSem, verifyVars, procVars, otherVars>>

\* What the callers do with a session between two Reset(): assign workers,
\* attach clients, mark it valid, running or shutting down.
ResetOps(t) ==
    {[name |-> "AddWorker", arg |-> w] : w \in
         (IF Len(fWorkers) < MaxWorkers THEN WorkerRefs ELSE {})}
    \cup {[name |-> "GetFreeID", arg |-> 0] : x \in
         (IF GetFreeID(fClients) < MaxClients /\ held[t] < 0 THEN {0} ELSE {})}
    \cup {[name |-> "Attach", arg |-> s] : s \in
         (IF held[t] >= 0 /\ held[t] < Len(fClients) THEN {SidOf(t)} ELSE {})}
    \cup {[name |-> "SetValid", arg |-> TRUE], [name |-> "SetShutdown", arg |-> TRUE],
          [name |-> "SetStatus", arg |-> "Valid"], [name |-> "Reset", arg |-> 0]}

ResetCall(t) ==
    /\ \E o \in ResetOps(t) : Call(t, o)
    /\ UNCHANGED <<clientVars, workerVars, heapVars, semVars, ctlVars>>

Priorities == 0 .. MaxPrio
Deltas == {-1, 1}

ChangePriorityRecordsAttempt(t) ==
    /\ Body(t, "ChangeProcessPriority")
    /\ \E res \in {"ok", "error"} :
          /\ res = "ok" => procPrio + op[t].arg \in Priorities
          /\ osResult' = res
          /\ osCalls' = 1
          /\ procPrio' = IF res = "ok" THEN procPrio + op[t].arg ELSE procPrio
          /\ fDefSchedPriority' = IF res = "ok" THEN fDefSchedPriority ELSE procPrio
          /\ Done(t, IF res = "ok" THEN 0 ELSE -1)
    /\ UNCHANGED <<fSched, fDefSched, fDefSchedParam, procSched, procParam>>
    /\ UNCHANGED <<clientVars, workerVars, heapVars, semVars, lifeVars, verifyVars, procVars,
                   bufVars, strVars, sumVars>>
\* ChangeProcessPriority(deltap): one call of the operating system, which
\* changes the priority of the process by deltap or fails; the recorded
\* defaults are not written.
DoChangeProcessPriority(t) ==
    /\ Body(t, "ChangeProcessPriority")
    /\ \E res \in {"ok", "error"} :
          /\ res = "ok" => procPrio + op[t].arg \in Priorities
          /\ osResult' = res
          /\ osCalls' = 1
          /\ procPrio' = IF res = "ok" THEN procPrio + op[t].arg ELSE procPrio
          /\ Done(t, IF res = "ok" THEN 0 ELSE -1)
    /\ UNCHANGED <<fSched, fDefSched, fDefSchedParam, fDefSchedPriority, procSched, procParam>>
    /\ UNCHANGED <<clientVars, workerVars, heapVars, semVars, lifeVars, verifyVars, procVars,
                   bufVars, strVars, sumVars>>

\* SetSchedRoundRobin(on): switches the process to round-robin, recording the
\* policy, param and priority it had as the defaults, or back to the defaults.
DoSetSchedRoundRobin(t) ==
    /\ Body(t, "SetSchedRoundRobin")
    /\ \E res \in {"ok", "error"} :
          /\ osResult' = res
          /\ osCalls' = 1
          /\ Done(t, IF res = "ok" THEN 0 ELSE -1)
          /\ IF res = "error"
             THEN UNCHANGED <<fSched, fDefSched, fDefSchedParam, fDefSchedPriority,
                              procSched, procParam, procPrio>>
             ELSE IF op[t].arg
             THEN /\ fSched' = "RR" /\ procSched' = "RR" /\ procParam' = 1
                  /\ fDefSched' = IF fSched = "RR" THEN fDefSched ELSE procSched
                  /\ fDefSchedParam' = IF fSched = "RR" THEN fDefSchedParam ELSE procParam
                  /\ fDefSchedPriority' = IF fSched = "RR" THEN fDefSchedPriority ELSE procPrio
                  /\ UNCHANGED procPrio
             ELSE /\ fSched' = fDefSched /\ procSched' = fDefSched
                  /\ procParam' = fDefSchedParam /\ procPrio' = fDefSchedPriority
                  /\ UNCHANGED <<fDefSched, fDefSchedParam, fDefSchedPriority>>
    /\ UNCHANGED <<clientVars, workerVars, heapVars, semVars, lifeVars, verifyVars, procVars,
                   bufVars, strVars, sumVars>>

PriorityOps ==
    {[name |-> "ChangeProcessPriority", arg |-> d] : d \in Deltas}
    \cup {[name |-> "SetSchedRoundRobin", arg |-> on] : on \in BOOLEAN}

PriorityCall(t) ==
    /\ \E o \in PriorityOps : Call(t, o)
    /\ UNCHANGED <<clientVars, workerVars, heapVars, semVars, ctlVars>>

\* ------------------------------------------------------- priority claims
\* C18: when the operating system refuses the change, ChangeProcessPriority()
\* returns a failure code, the recorded default policy, param and priority and
\* the priority of the process are what they were, and the operating system
\* was called once.
C18_PriorityFailureKeepsDefaults ==
    [][\A t \in Threads : (Ran(t, "ChangeProcessPriority") /\ osResult' = "error") =>
          /\ ret'[t] # 0
          /\ UNCHANGED <<fDefSched, fDefSchedParam, fDefSchedPriority>>
          /\ UNCHANGED <<fSched, procSched, procParam, procPrio>>
          /\ osCalls' = 1]_vars

\* ChangeProcessPriority() has failed on a process running round-robin at a
\* priority other than the recorded default.
C18_Witness ==
    \E t \in Threads :
        /\ After(t, "ChangeProcessPriority")
        /\ osResult = "error" /\ ret[t] = -1
        /\ fSched = "RR" /\ fDefSched = "OTHER"
        /\ procPrio # fDefSchedPriority

\* ---------------------------------------------------------- RooRealSumFunc
\* The values (double) the functions and coefficients take: small integers.
Vals == -1 .. MaxVal
Lists(n) == [1 .. n -> Vals]

\* The elements of a RooArgList: a RooAbsReal with its value, or an argument
\* of another class.
Args == [real : {TRUE}, val : Vals] \cup [real : {FALSE}, val : {0}]
ArgLists(n) == [1 .. n -> Args]
\* The list of RooAbsReal with the values l.
Reals(l) == [i \in DOMAIN l |-> [real |-> TRUE, val |-> l[i]]]

\* The loop of the constructor over the coefficients from pair i on: a pair
\* whose coefficient or function is not a RooAbsReal is ignored.
RECURSIVE AddPairs(_, _, _, _, _)
AddPairs(inFuncList, inCoefList, i, funcs, coefs) ==
    IF i > Len(inCoefList) THEN <<funcs, coefs>>
    ELSE IF ~inCoefList[i].real \/ ~inFuncList[i].real
         THEN AddPairs(inFuncList, inCoefList, i + 1, funcs, coefs)
         ELSE AddPairs(inFuncList, inCoefList, i + 1,
                       Append(funcs, inFuncList[i].val), Append(coefs, inCoefList[i].val))

\* The constructor throws std::invalid_argument: there is one more function
\* than coefficients and the last function is not a RooAbsReal.
Throws(inFuncList, inCoefList) ==
    Len(inFuncList) = Len(inCoefList) + 1 /\ ~inFuncList[Len(inFuncList)].real

\* RooRealSumFunc(name, title, inFuncList, inCoefList), the sizes being N and
\* N or N - 1: the pairs are added, then the last function if there is one
\* more function than coefficients, else _haveLastCoef is set.
RooRealSumFunc(inFuncList, inCoefList) ==
    LET pairs == AddPairs(inFuncList, inCoefList, 1, << >>, << >>) IN
    IF Len(inFuncList) = Len(inCoefList) + 1
    THEN [funcList |-> Append(pairs[1], inFuncList[Len(inFuncList)].val),
          coefList |-> pairs[2], haveLastCoef |-> FALSE, doFloor |-> FALSE]
    ELSE [funcList |-> pairs[1], coefList |-> pairs[2],
          haveLastCoef |-> TRUE, doFloor |-> FALSE]

\* RooRealSumFunc(name, title): both lists empty, _haveLastCoef(false).
RooRealSumFuncNameTitle ==
    [funcList |-> << >>, coefList |-> << >>, haveLastCoef |-> FALSE, doFloor |-> FALSE]

\* RooRealSumFunc(name, title, func1, func2, coef1)
RooRealSumFuncPair(func1, func2, coef1) ==
    [funcList |-> <<func1, func2>>, coefList |-> <<coef1>>,
     haveLastCoef |-> FALSE, doFloor |-> FALSE]

\* RooRealSumFunc(other, name): the copy constructor.
RooRealSumFuncCopy(other) ==
    [funcList |-> other.funcList, coefList |-> other.coefList,
     haveLastCoef |-> other.haveLastCoef, doFloor |-> other.doFloor]

\* The loop of evaluate() from pair i on: <<value, lastCoef>> at its end.
RECURSIVE SumPairs(_, _, _, _, _)
SumPairs(sf, sel, i, value, lastCoef) ==
    IF i > Len(sf.coefList) THEN <<value, lastCoef>>
    ELSE LET coefVal == sf.coefList[i] IN
         IF coefVal # 0
         THEN SumPairs(sf, sel, i + 1,
                       IF sel[i] THEN value + sf.funcList[i] * coefVal ELSE value,
                       lastCoef - coefVal)
         ELSE SumPairs(sf, sel, i + 1, value, lastCoef)

evaluateWithoutLast(sf, sel, floorGlobal) ==
    LET value == SumPairs(sf, sel, 1, 0, 1)[1]
    IN  IF value < 0 /\ (sf.doFloor \/ floorGlobal) THEN 0 ELSE value
\* double RooRealSumFunc::evaluate() const
evaluate(sf, sel, floorGlobal) ==
    LET loop == SumPairs(sf, sel, 1, 0, 1)
        last == Len(sf.coefList) + 1
        value == IF ~sf.haveLastCoef /\ sel[last]
                 THEN loop[1] + sf.funcList[last] * loop[2]
                 ELSE loop[1]
    IN  IF value < 0 /\ (sf.doFloor \/ floorGlobal) THEN 0 ELSE value

\* A RooRealSumFunc is constructed from N functions and N or N - 1
\* coefficients; each function is a selected component or not.
NewRooRealSumFunc ==
    /\ sumState = "none"
    /\ \E n \in 1 .. MaxTerms, m \in 0 .. MaxTerms :
          /\ n = m \/ n = m + 1
          /\ \E fl \in Lists(n), cl \in Lists(m) :
                sumFunc' = RooRealSumFunc(Reals(fl), Reals(cl))
          /\ \E sel \in [1 .. n -> BOOLEAN] : selectedComp' = sel
    /\ sumState' = "built"
    /\ UNCHANGED <<doFloorGlobal, sumValue>>
    /\ UNCHANGED <<proxyVars, bufVars, strVars, prioVars, intVars>>

\* RooRealSumFunc::~RooRealSumFunc()
DeleteRooRealSumFunc ==
    /\ sumState # "none"
    /\ funcIntList' = << >> /\ funcNormList' = << >> /\ normSet' = "null"
    /\ intValue' = 0 /\ intNorm' = 1
    /\ sumFunc' = [funcList |-> << >>, coefList |-> << >>, haveLastCoef |-> FALSE,
                   doFloor |-> FALSE]
    /\ selectedComp' = << >>
    /\ sumValue' = 0
    /\ sumState' = "none"
    /\ UNCHANGED doFloorGlobal
    /\ UNCHANGED <<proxyVars, bufVars, strVars, prioVars>>

\* The floor is switched on or off, for this object or for all.
SetFloor ==
    /\ sumState = "built"
    /\ \E f, g \in BOOLEAN :
          /\ <<f, g>> # <<sumFunc.doFloor, doFloorGlobal>>
          /\ sumFunc' = [sumFunc EXCEPT !.doFloor = f]
          /\ doFloorGlobal' = g
    /\ UNCHANGED <<selectedComp, sumValue, sumState>>
    /\ UNCHANGED <<proxyVars, bufVars, strVars, prioVars, intVars>>

\* evaluate() reads the function after the last pair, which exists.
HasLastFunc(sf) == sf.haveLastCoef \/ Len(sf.funcList) > Len(sf.coefList)

\* evaluate() is called.
Evaluate ==
    /\ sumState \in {"built", "copied"}
    /\ HasLastFunc(sumFunc)
    /\ sumValue' = evaluate(sumFunc, selectedComp, doFloorGlobal)
    /\ sumState' = "evaluated"
    /\ UNCHANGED <<sumFunc, selectedComp, doFloorGlobal>>
    /\ UNCHANGED <<proxyVars, bufVars, strVars, prioVars, intVars>>

\* The other constructors.  RooRealSumFunc(name, title):
NewNameTitle ==
    /\ sumState = "none"
    /\ sumFunc' = RooRealSumFuncNameTitle
    /\ selectedComp' = << >>
    /\ sumState' = "built"
    /\ UNCHANGED <<doFloorGlobal, sumValue>>
    /\ UNCHANGED <<proxyVars, bufVars, strVars, prioVars, intVars>>

\* RooRealSumFunc(name, title, func1, func2, coef1):
NewPair ==
    /\ sumState = "none"
    /\ \E func1, func2, coef1 \in Vals : sumFunc' = RooRealSumFuncPair(func1, func2, coef1)
    /\ \E sel \in [1 .. 2 -> BOOLEAN] : selectedComp' = sel
    /\ sumState' = "built"
    /\ UNCHANGED <<doFloorGlobal, sumValue>>
    /\ UNCHANGED <<proxyVars, bufVars, strVars, prioVars, intVars>>

\* RooRealSumFunc(name, title, inFuncList, inCoefList) with lists that hold
\* arguments of any class; when it throws no object is constructed.
NewFromLists ==
    /\ sumState = "none"
    /\ \E n \in 1 .. MaxTerms, m \in 0 .. MaxTerms :
          /\ n = m \/ n = m + 1
          /\ \E fl \in ArgLists(n), cl \in ArgLists(m) :
                IF Throws(fl, cl)
                THEN UNCHANGED <<sumFunc, selectedComp>> /\ sumState' = "thrown"
                ELSE /\ sumFunc' = RooRealSumFunc(fl, cl)
                     /\ \E sel \in [1 .. Len(sumFunc'.funcList) -> BOOLEAN] : selectedComp' = sel
                     /\ sumState' = "built"
    /\ UNCHANGED <<doFloorGlobal, sumValue>>
    /\ UNCHANGED <<proxyVars, bufVars, strVars, prioVars, intVars>>

\* RooRealSumFunc(other, name): the object is replaced by its copy.
NewCopy ==
    /\ sumState = "built"
    /\ sumFunc' = RooRealSumFuncCopy(sumFunc)
    /\ sumState' = "copied"
    /\ UNCHANGED <<selectedComp, doFloorGlobal, sumValue>>
    /\ UNCHANGED <<proxyVars, bufVars, strVars, prioVars, intVars>>

\* evaluate() on an object with no function after the last pair: funcIter.next()
\* returns null and func->isSelectedComp() goes through the null pointer.  The
\* call crashes, or returns some value.
EvaluateNull ==
    /\ sumState \in {"built", "copied"}
    /\ ~HasLastFunc(sumFunc)
    /\ \/ sumState' = "crashed" /\ UNCHANGED sumValue
       \/ sumState' = "evaluated" /\ \E v \in Vals : sumValue' = v
    /\ UNCHANGED <<sumFunc, selectedComp, doFloorGlobal>>
    /\ UNCHANGED <<proxyVars, bufVars, strVars, prioVars, intVars>>

\* ------------------------------------------------- analyticalIntegralWN
\* const RooArgSet *normSet2: null, an empty set, or a set of observables.
NormSets == {"null", "empty", "set"}

\* The first loop of analyticalIntegralWN() from pair i on: <<value, lastCoef>>.
RECURSIVE IntPairs(_, _, _, _, _, _, _)
IntPairs(sf, sel, ints, nset, i, value, lastCoef) ==
    IF i > Len(sf.coefList) THEN <<value, lastCoef>>
    ELSE LET coefVal == sf.coefList[i] IN
         IF coefVal # 0
         THEN IntPairs(sf, sel, ints, nset, i + 1,
                       IF nset = "null" \/ sel[i] THEN value + ints[i] * coefVal ELSE value,
                       lastCoef - coefVal)
         ELSE IntPairs(sf, sel, ints, nset, i + 1, value, lastCoef)

\* The second loop, over the normalisation integrals, from pair i on.
RECURSIVE NormPairs(_, _, _, _)
NormPairs(sf, norms, i, normVal) ==
    IF i > Len(sf.coefList) THEN normVal
    ELSE NormPairs(sf, norms, i + 1,
                   IF sf.coefList[i] # 0 THEN normVal + norms[i] * sf.coefList[i] ELSE normVal)

\* double analyticalIntegralWN(code, normSet2, rangeName) for a code other than
\* 0: the value and the normVal it divides, each way the call can end.  After the
\* first loop func is the function of the last pair, or null when there is no
\* coefficient: the last integral is added when normSet2 is null or that func
\* is a selected component; with func null the test goes through a null pointer.
analyticalIntegralWN(sf, sel, ints, norms, nset) ==
    LET loop == IntPairs(sf, sel, ints, nset, 1, 0, 1)
        m == Len(sf.coefList)
        normVal == IF nset = "set"
                   THEN NormPairs(sf, norms, 1, 0)
                        + (IF sf.haveLastCoef THEN 0 ELSE norms[m + 1] * loop[2])
                   ELSE 1
        skipped == [value |-> loop[1], normVal |-> normVal, crashed |-> FALSE]
        added == [value |-> loop[1] + ints[m + 1] * loop[2], normVal |-> normVal,
                  crashed |-> FALSE]
    IN  IF sf.haveLastCoef THEN {skipped}
        ELSE IF nset = "null" THEN {added}
        ELSE IF m = 0 THEN {added, skipped, [value |-> 0, normVal |-> 1, crashed |-> TRUE]}
        ELSE IF sel[m] THEN {added} ELSE {skipped}

\* A RooRealSumFunc is constructed from N functions that are 0 at the current
\* point and N or N - 1 coefficients.
NewIntegrable ==
    /\ sumState = "none"
    /\ \E n \in 1 .. MaxTerms, m \in 0 .. MaxTerms :
          /\ n = m \/ n = m + 1
          /\ \E cl \in Lists(m) :
                sumFunc' = RooRealSumFunc(Reals([i \in 1 .. n |-> 0]), Reals(cl))
          /\ \E sel \in [1 .. n -> BOOLEAN] : selectedComp' = sel
    /\ sumState' = "built"
    /\ UNCHANGED <<doFloorGlobal, sumValue>>
    /\ UNCHANGED <<proxyVars, bufVars, strVars, prioVars, intVars>>

\* getAnalyticalIntegralWN(allVars, analVars, normSet2, rangeName): the cache
\* element gets the integral of every function and, when the normalisation set
\* is not empty, its normalisation integral.
GetAnalyticalIntegralWN ==
    /\ sumState = "built"
    /\ \E nset \in NormSets :
          /\ normSet' = nset
          /\ \E ints \in Lists(Len(sumFunc.funcList)) : funcIntList' = ints
          /\ IF nset = "set"
             THEN \E norms \in Lists(Len(sumFunc.funcList)) : funcNormList' = norms
             ELSE funcNormList' = << >>
    /\ sumState' = "cached"
    /\ UNCHANGED <<sumFunc, selectedComp, doFloorGlobal, sumValue, intValue, intNorm>>
    /\ UNCHANGED <<proxyVars, bufVars, strVars, prioVars>>

\* analyticalIntegralWN(code, normSet2, rangeName) is called with the code
\* getAnalyticalIntegralWN() returned.
AnalyticalIntegralWN ==
    /\ sumState = "cached"
    /\ \E r \in analyticalIntegralWN(sumFunc, selectedComp, funcIntList, funcNormList, normSet) :
          /\ intValue' = r.value
          /\ intNorm' = r.normVal
          /\ sumState' = IF r.crashed THEN "crashed" ELSE "integrated"
    /\ UNCHANGED <<sumFunc, selectedComp, doFloorGlobal, sumValue,
                   funcIntList, funcNormList, normSet>>
    /\ UNCHANGED <<proxyVars, bufVars, strVars, prioVars>>

\* analyticalIntegralWN(0, normSet2, rangeName): return getVal(normSet2).
AnalyticalIntegralWN0 ==
    /\ sumState = "built"
    /\ intValue' = evaluate(sumFunc, selectedComp, doFloorGlobal)
    /\ intNorm' = 1
    /\ sumState' = "passed"
    /\ UNCHANGED <<sumFunc, selectedComp, doFloorGlobal, sumValue,
                   funcIntList, funcNormList, normSet>>
    /\ UNCHANGED <<proxyVars, bufVars, strVars, prioVars>>

\* ------------------------------------------------------------ sum claims
\* C28 (as claimed): every RooRealSumFunc a constructor has built holds as
\* many functions as coefficients when _haveLastCoef is true and one more when
\* it is false, so that no evaluate() reads a function that is not there.
C28_FuncsMatchCoefs ==
    /\ sumState \in {"built", "copied", "evaluated"} =>
          Len(sumFunc.funcList) =
              Len(sumFunc.coefList) + (IF sumFunc.haveLastCoef THEN 0 ELSE 1)
    /\ sumState # "crashed"

\* sum_{i <= n} coefs[i] * funcs[i], and sum_{i <= n} coefs[i].
RECURSIVE Dot(_, _, _)
Dot(funcs, coefs, n) ==
    IF n = 0 THEN 0 ELSE Dot(funcs, coefs, n - 1) + coefs[n] * funcs[n]
RECURSIVE Total(_, _)
Total(coefs, n) == IF n = 0 THEN 0 ELSE Total(coefs, n - 1) + coefs[n]

\* C29 (as claimed): analyticalIntegralWN() adds the integral of the last
\* function, the one without a coefficient of its own, times 1 - sum of the
\* coefficients, exactly when there is no normalisation set or that last
\* function is a selected component, for any number of coefficients, zero
\* included; and the call does not crash.
C29_LastIntegralAsEvaluate ==
    /\ (sumState = "integrated" /\ ~sumFunc.haveLastCoef) =>
          LET m == Len(sumFunc.coefList)
              pairs == IntPairs(sumFunc, selectedComp, funcIntList, normSet, 1, 0, 1)[1]
          IN  intValue = pairs + (IF normSet = "null" \/ selectedComp[m + 1]
                                  THEN funcIntList[m + 1] * (1 - Total(sumFunc.coefList, m))
                                  ELSE 0)
    /\ sumState # "crashed"

AllSelected == \A i \in 1 .. Len(selectedComp) : selectedComp[i]
FloorOff == ~sumFunc.doFloor /\ ~doFloorGlobal

Statuses == {"Unvalidated", "Valid", "ShutdownRequested", "Terminated", "Invalid"}

\* C11: once TerminateProofServ() has marked the proxy, and after it has
\* returned, the validity flag is false whatever it was before, an IsValid()
\* called then returns false, and the fields the accessors return hold values
\* of their types, the ping semaphore pointer being null or a live object.
C11_TerminateInvalidates ==
    /\ vpc \in {"marked", "termdone"} =>
          /\ fIsValid = FALSE
          /\ fIsShutdown \in BOOLEAN
          /\ fStatus \in Statuses
          /\ fPingSem = 0 \/ fPingSem \in live
    /\ (vpc = "termdone" /\ After(Verifier, "IsValid")) => ret[Verifier] = 0

\* TerminateProofServ() has returned on a proxy that a successful verification
\* had made valid and that was asked to shut down, and IsValid() has answered.
C11_Witness ==
    /\ vpc = "termdone" /\ After(Verifier, "IsValid")
    /\ vret = "success" /\ fIsShutdown
    /\ ret[Verifier] = 0

\* The caller sets the validity flag or the status itself: SetValid(valid),
\* SetStatus(st).
LifecycleOps ==
    {[name |-> "SetValid", arg |-> b] : b \in BOOLEAN}
    \cup {[name |-> "SetStatus", arg |-> st] : st \in Statuses}

LifecycleCall ==
    /\ vpc \in {"idle", "termdone"}
    /\ \E o \in LifecycleOps : Call(Verifier, o)
    /\ UNCHANGED <<clientVars, workerVars, heapVars, semVars, ctlVars>>

\* C23 (as claimed): no public operation other than Reset() takes a proxy that
\* is Terminated, its validity flag false, to Valid or ShutdownRequested, or
\* makes its validity flag, which IsValid() returns, true again.
C23_TerminatedIsFinal ==
    [][(fStatus = "Terminated" /\ ~fIsValid) =>
          (fStatus' \notin {"Valid", "ShutdownRequested"} /\ ~fIsValid')]_vars

\* The control thread is inside a call of VerifyProofServ.
InVerify == vpc \in {"create", "created", "wait", "delete", "deleted", "validate"}

\* C21: no step of a VerifyProofServ call that times out changes the validity
\* flag or the lifecycle status, so both are at its return what they were
\* before the call; and the caller can call VerifyProofServ again.
C21_TimeoutLeavesValidity ==
    /\ [][(InVerify /\ vret' = "timeout") => UNCHANGED <<fIsValid, fStatus>>]_vars
    /\ []((vpc = "done" /\ vret = "timeout" /\ pc[Verifier] = "idle") => ENABLED CallerContinues)
    /\ []((vpc = "idle" /\ vret = "timeout" /\ tpc = "idle" /\ ~pending /\ pc[Verifier] = "idle")
            => ENABLED VerifyStart)

\* A VerifyProofServ has succeeded and marked the proxy valid after an earlier
\* one had timed out: the reply to the earlier ping was posted on the semaphore
\* the timed-out call had deleted, which only a timed-out call leaves behind.
C21_Witness ==
    /\ vpc = "done" /\ vret = "success" /\ fIsValid
    /\ staleUse

\* C22: the forceful signal is sent only when the termination signal was the
\* one sent before it in the same call, the grace period counted from then has
\* run out and the process has not exited; when the wait for the exit ends by
\* the exit no signal is sent; a call sends the termination signal first; and
\* every signal goes to the process id the proxy has recorded.
C22_ForcefulOnlyAfterGrace ==
    [][/\ (Len(sigs') > Len(sigs) /\ sigs'[Len(sigs')] = "KILL") =>
             /\ vpc = "grace"
             /\ sigs # << >> /\ sigs[Len(sigs)] = "TERM"
             /\ procAlive /\ elapsed >= Grace
       /\ (vpc = "grace" /\ vpc' # "grace" /\ ~procAlive) => sigs' = sigs
       /\ (vpc = "term" /\ vpc' # "term") => sigs' = Append(sigs, "TERM")
       /\ sigs' # sigs =>
             /\ Len(sigs') = Len(sigs) + 1 /\ Len(sigPids') = Len(sigs')
             /\ sigPids'[Len(sigPids')] = fSrvID /\ fSrvID' = fSrvID
             /\ lockOwner = Verifier /\ op[Verifier].name = "TerminateProofServ"]_vars

\* TerminateProofServ() has sent the termination signal and, the grace period
\* over, the forceful one, both to the id recorded with SetSrv; the process
\* exited after that.
C22_Witness ==
    /\ vpc = "termdone" /\ ~procAlive
    /\ sigs = <<"TERM", "KILL">> /\ elapsed = Grace
    /\ fSrvID = 2 /\ sigPids = <<2, 2>>

Inside(t) == pc[t] # "idle"

C24_IdImmutableOnceAssigned ==
    [][/\ fID # -1 => fID' = fID
       /\ \A t \in Threads : Ran(t, "ID") => ret'[t] = fID]_vars

\* C26: a thread inside SetShutdownTimer(), holding the lock, can enter
\* SetShutdown() at once; the lock is held by a thread as many times as it has
\* calls in progress and stays with it when an inner call returns, until the
\* outermost returns; every call returns, and when none is in progress the lock
\* is free and every thread can enter.
C26_ReentrantNoDeadlock ==
    /\ [](\A t \in Threads :
             (pc[t] = "in" /\ op[t].name = "SetShutdownTimer" /\ ~op[t].arg.called)
                 => (lockOwner = t /\ ENABLED TimerSetShutdown(t)))
    /\ [](\A t \in Threads :
             pc[t] # "idle" => (lockOwner = t /\ lockCount = 1 + Len(stack[t])))
    /\ [][\A t \in Threads :
             Len(stack'[t]) < Len(stack[t]) => (lockOwner' = t /\ lockCount' = lockCount - 1)]_vars
    /\ []((\A t \in Threads : pc[t] = "idle")
             => (lockOwner = 0 /\ \A t \in Threads : ENABLED TimerCall(t)))
    /\ \A t \in Threads : [](pc[t] # "idle" => <>(pc[t] = "idle"))

\* A thread is inside SetShutdown(), called by its SetShutdownTimer(), holding
\* the lock twice, the flag already set.
C26_Witness ==
    \E t \in Threads :
        /\ pc[t] = "out" /\ op[t].name = "SetShutdown"
        /\ stack[t] # << >> /\ stack[t][1].name = "SetShutdownTimer"
        /\ lockOwner = t /\ lockCount = 2
        /\ fIsShutdown

\* C8: the lock is held as many times as there are locking operations in
\* progress, its holder is inside an operation, and it is free whenever no
\* operation is in progress.
C8_LockReleasedOnEveryExit ==
    /\ lockCount = Cardinality({t \in Threads : Inside(t) /\ op[t].name # "Mutex"})
    /\ lockOwner # 0 => Inside(lockOwner)
    /\ (\A t \in Threads : ~Inside(t)) => (lockOwner = 0 /\ lockCount = 0)
    /\ (lockOwner = 0) = (lockCount = 0)

\* Every operation has returned, among them a CreatePingSem() and the
\* DeletePingSem() that freed its semaphore, and the lock is free.
C8_Witness ==
    /\ \A t \in Threads : ~Inside(t)
    /\ nextObj > 0 /\ live = {} /\ fPingSem = 0 /\ fQueryNum = 0 /\ fStartMsg = 0
    /\ lockOwner = 0

\* ---------------------------------------------------------------- Init
Init ==
    /\ fClients = << >>
    /\ fWorkers = << >>
    /\ lockOwner = 0
    /\ lockCount = 0
    /\ pc = [t \in Threads |-> "idle"]
    /\ op = [t \in Threads |-> NoOp]
    /\ ret = [t \in Threads |-> -1]
    /\ held = [t \in Threads |-> -1]
    /\ stack = [t \in Threads |-> << >>]
    /\ issued = {}
    /\ fPingSem = 0
    /\ fQueryNum = 0
    /\ fStartMsg = 0
    /\ fID = -1
    /\ nextObj = 0
    /\ live = {}
    /\ fIsValid = FALSE
    /\ fStatus = "Unvalidated"
    /\ fIsShutdown = FALSE
    /\ vpc = "idle"
    /\ vret = "none"
    /\ timeout = 1
    /\ delay = 1
    /\ willReply = FALSE
    /\ pending = FALSE
    /\ elapsed = 0
    /\ posted = {}
    /\ tpc = "idle"
    /\ staleUse = FALSE
    /\ procAlive = TRUE
    /\ sigs = << >>
    /\ fSrvID = 1
    /\ sigPids = << >>
    /\ bufArgs = [bp |-> 0, sz |-> 0, dup |-> FALSE]
    /\ buf = [fSize |-> 0, fBuff |-> 0, fMembuf |-> 0]
    /\ bufState = "none"
    /\ freed = {}
    /\ fAlias = 0
    /\ aliasText = << >>
    /\ fSched = "OTHER"
    /\ fDefSched = "OTHER"
    /\ fDefSchedParam = 0
    /\ fDefSchedPriority = 0
    /\ procSched = "OTHER"
    /\ procParam = 0
    /\ procPrio = 0
    /\ osResult = "none"
    /\ osCalls = 0
    /\ sumFunc = [funcList |-> << >>, coefList |-> << >>, haveLastCoef |-> FALSE,
                  doFloor |-> FALSE]
    /\ selectedComp = << >>
    /\ doFloorGlobal = FALSE
    /\ sumValue = 0
    /\ sumState = "none"
    /\ funcIntList = << >>
    /\ funcNormList = << >>
    /\ normSet = "null"
    /\ intValue = 0
    /\ intNorm = 1

\* The client-handle table: GetFreeID, GetNClients, attach and detach.
Next ==
    \E t \in Threads :
        \/ ClientCall(t)
        \/ DoGetFreeID(t)
        \/ DoGetNClients(t)
        \/ DoGetClientID(t)
        \/ DoAttach(t)
        \/ DoDetach(t)
        \/ Return(t)

Spec == Init /\ [][Next]_vars

\* The worker pool: AddWorker, RemoveWorker, GetNWorkers.
NextWorkers ==
    \E t \in Threads :
        \/ WorkerCall(t)
        \/ DoAddWorker(t)
        \/ DoRemoveWorker(t)
        \/ DoGetNWorkers(t)
        \/ Return(t)

SpecWorkers == Init /\ [][NextWorkers]_vars

\* The worker pool reached through the pointer Workers() hands out, beside
\* the methods of the proxy.
NextAlias ==
    \E t \in Threads :
        \/ AliasCall(t)
        \/ DoAddWorker(t)
        \/ DoGetNWorkers(t)
        \/ DoWorkers(t)
        \/ UseWorkers(t)
        \/ Return(t)

SpecAlias == Init /\ [][NextAlias]_vars

\* The lock around the inline accessors and mutators, the ping semaphore and
\* the buffered messages.
NextLock ==
    \E t \in Threads :
        \/ SemCall(t)
        \/ BufferCall(t)
        \/ DoMutex(t)
        \/ DoSetID(t)
        \/ DoID(t)
        \/ DoCreatePingSem(t)
        \/ DoDeletePingSem(t)
        \/ DoSetQueryNum(t)
        \/ DoQueryNum(t)
        \/ DoDeleteQueryNum(t)
        \/ DoSetStartMsg(t)
        \/ DoStartMsg(t)
        \/ DoDeleteStartMsg(t)
        \/ Return(t)

SpecLock == Init /\ [][NextLock]_vars

\* The ping semaphore created, handed out, posted and deleted by any thread
\* in any order.
NextPing ==
    \E t \in Threads :
        \/ PingCall(t)
        \/ DoCreatePingSem(t)
        \/ DoDeletePingSem(t)
        \/ DoPingSem(t)
        \/ Post(t)
        \/ Return(t)

SpecPing == Init /\ [][NextPing]_vars

\* The control thread verifying and terminating, the transport thread, the
\* controlled process and the clock.
NextVerify ==
    \/ VerifyStart
    \/ VerifyCreate
    \/ VerifyCreateFailed
    \/ VerifySend
    \/ VerifyWake
    \/ VerifyTimeout
    \/ VerifyDelete
    \/ VerifyValidate
    \/ VerifyReturn
    \/ CallerContinues
    \/ ShutdownRequest
    \/ CallerIsValid
    \/ TermStart
    \/ TermSignal
    \/ TermExited
    \/ TermEscalate
    \/ TermMark
    \/ TermReturn
    \/ ReplyArrives
    \/ TransportPingSem
    \/ TransportPost
    \/ ProcExit
    \/ Tick
    \/ \E t \in {Verifier, Transport} :
          \/ DoCreatePingSem(t)
          \/ DoDeletePingSem(t)
          \/ DoPingSem(t)
          \/ DoSetValid(t)
          \/ DoSetShutdown(t)
          \/ DoIsValid(t)
          \/ Return(t)

SpecVerify == Init /\ [][NextVerify]_vars

\* The control thread recording the process of the session, asking it to shut
\* down and terminating it; the controlled process and the clock.
NextTerminate ==
    \/ CallerSetSrv
    \/ LifecycleCall
    \/ ShutdownRequest
    \/ CallerIsValid
    \/ CallerContinues
    \/ TermStart
    \/ TermSignal
    \/ TermExited
    \/ TermEscalate
    \/ TermMark
    \/ TermReturn
    \/ ProcExit
    \/ Tick
    \/ DoSetSrv(Verifier)
    \/ DoSetValid(Verifier)
    \/ DoSetStatus(Verifier)
    \/ DoSetShutdown(Verifier)
    \/ DoIsValid(Verifier)
    \/ Return(Verifier)

SpecTerminate == Init /\ [][NextTerminate]_vars

\* XrdSrvBuffer objects being constructed and destroyed.
NextBuffer ==
    \/ NewXrdSrvBuffer
    \/ DeleteXrdSrvBuffer

SpecBuffer == Init /\ [][NextBuffer]_vars

\* RooRealSumFunc objects being constructed and evaluated.
NextSum ==
    \/ NewRooRealSumFunc
    \/ DeleteRooRealSumFunc
    \/ SetFloor
    \/ Evaluate

SpecSum == Init /\ [][NextSum]_vars

\* RooRealSumFunc objects built by each of the constructors and evaluated.
NextConstruct ==
    \/ NewNameTitle
    \/ NewPair
    \/ NewFromLists
    \/ NewCopy
    \/ DeleteRooRealSumFunc
    \/ Evaluate
    \/ EvaluateNull

SpecConstruct == Init /\ [][NextConstruct]_vars

\* RooRealSumFunc objects being integrated.
NextIntegral ==
    \/ NewIntegrable
    \/ DeleteRooRealSumFunc
    \/ GetAnalyticalIntegralWN
    \/ AnalyticalIntegralWN
    \/ AnalyticalIntegralWN0

SpecIntegral == Init /\ [][NextIntegral]_vars

\* The priority and the scheduling policy of the controlled process.
NextPriority ==
    \E t \in Threads :
        \/ PriorityCall(t)
        \/ DoChangeProcessPriority(t)
        \/ DoSetSchedRoundRobin(t)
        \/ Return(t)

SpecPriority == Init /\ [][NextPriority]_vars

\* SetShutdownTimer calling SetShutdown, beside the accessors of the flags.
NextNested ==
    \E t \in Threads :
        \/ TimerCall(t)
        \/ TimerSetShutdown(t)
        \/ DoSetShutdown(t)
        \/ NestedReturn(t)
        \/ DoSetShutdownTimer(t)
        \/ DoIsShutdown(t)
        \/ DoSetValid(t)
        \/ DoIsValid(t)
        \/ Return(t)

SpecNested == Init /\ [][NextNested]_vars

\* A thread inside an operation is scheduled.
SpecNestedFair ==
    /\ Init /\ [][NextNested]_vars
    /\ \A t \in Threads : WF_vars(InsideStep(t))

\* A session being populated and recycled with Reset(), by one thread: the
\* lock lets only one thread at a time into these operations.
NextReset ==
    \E t \in {Verifier} :
        \/ ResetCall(t)
        \/ BufferCall(t)
        \/ DoAddWorker(t)
        \/ DoGetFreeID(t)
        \/ DoAttach(t)
        \/ DoSetQueryNum(t)
        \/ DoSetStartMsg(t)
        \/ DoSetValid(t)
        \/ DoSetShutdown(t)
        \/ DoSetStatus(t)
        \/ DoReset(t)
        \/ Return(t)

SpecReset == Init /\ [][NextReset]_vars

\* The string fields: SetAlias, Alias and the callers reading what Alias gave.
NextStrings ==
    \E t \in Threads :
        \/ StringCall(t)
        \/ DoSetAlias(t)
        \/ DoAlias(t)
        \/ ReadString(t)
        \/ Return(t)

SpecStrings == Init /\ [][NextStrings]_vars

\* The threads are scheduled and time passes; the worker need not reply and
\* the process need not exit.
SpecVerifyFair ==
    /\ Init /\ [][NextVerify]_vars
    /\ WF_vars(ControlStep)
    /\ WF_vars(TransportStep)
    /\ WF_vars(Tick)
====
